---- MODULE Spec2Model ----
(***************************************************************************)
(* The Blustream matrix media_player platform                              *)
(* (custom_components/blustream/media_player.py):                          *)
(*   - async_setup_entry, step by step;                                    *)
(*   - MyListener, the listener that routes session callbacks to entities; *)
(*   - MatrixEntity and MatrixOutput, the entities and their actions.      *)
(* The pyblustream Matrix (the session) is the environment: it delivers    *)
(* callbacks to the registered listener and receives commands.             *)
(***************************************************************************)
EXTENDS Integers, Sequences, FiniteSets, TLC

VARIABLES
    pc,                      \* position of async_setup_entry
    idx,                     \* position of the loop over matrix.outputs_by_id
    inputs_by_id,            \* matrix.inputs_by_id: input id -> display name
    matrix_entities,         \* MyListener.matrix_entities (list)
    matrix_output_entities,  \* MyListener.matrix_output_entities (dict, in key order)
    registrations,           \* the entities handed to the listener, in call order
    entities,                \* the entity objects constructed so far
    output_id,               \* MatrixOutput.output_id, per entity object
    attr_state,              \* _attr_state, per entity object
    attr_source,             \* _attr_source, per entity object
    sessionCalls,            \* the commands the last operation sent to the matrix
    raised,                  \* the exception the last operation let escape
    notified,                \* schedule_update_ha_state calls of the last operation
    lastOp,                  \* the last operation and its arguments
    refreshQ,                \* callbacks the status refresh still has to deliver
    lastBroadcast            \* the last power_changed or disconnected dispatched
                             \* since the last registration

vars == <<pc, idx, inputs_by_id, matrix_entities, matrix_output_entities,
          registrations, entities,
          output_id, attr_state, attr_source, sessionCalls, raised, notified,
          lastOp, refreshQ, lastBroadcast>>

----------------------------------------------------------------------------
(* Bounds *)

\* events carry an input id in 0..MaxInputId
MaxInputId == 3
\* number of second registrations of an output id
MaxReplace == 1
\* number of device entities registered besides the one of setup
MaxExtraDevices == 1

----------------------------------------------------------------------------
(* Values *)

\* Python's None as a state or a source
None == "None"
StateOn == "on"
StateOff == "off"
\* dict.get(output_id) without a match
NoEntity == 0
\* inputs_by_name.get(source) without a match
NoInput == -1
\* no exception escaped
NoError == "none"
\* no power_changed and no disconnected since the last registration
NoBroadcast == "unset"

\* matrix.outputs_by_id, its keys in iteration order
OutputIds == <<10, 11>>
\* an output id of the device that setup has not discovered
UndiscoveredOutput == 12
EventOutputIds == {OutputIds[n] : n \in DOMAIN OutputIds} \cup {UndiscoveredOutput}
EventInputIds == 0..MaxInputId

\* the input catalogs of the matrix
CatalogA == (1 :> "HDMI1") @@ (2 :> "HDMI2")
CatalogB == (0 :> "HDMI0") @@ (1 :> "HDMI1")
Catalogs == {CatalogA, CatalogB}

\* raw power values the session reports
RawPower == {"ON", "OFF", "on", "STANDBY"}
\* source names a user may select
SourceNames == {"HDMI0", "HDMI1", "HDMI2", "Bogus"}
\* the CEC commands of an output
CecCommands == {"send_cec_power_on", "send_cec_power_off", "send_cec_volume_up",
                "send_cec_volume_down", "send_cec_mute"}
\* the actions of a MatrixOutput that send a CEC command
OutputActions == {"turn_on", "turn_off", "volume_up", "volume_down", "mute_volume"}
\* the command each of them sends
CecCommand(action) ==
    CASE action = "turn_on" -> "send_cec_power_on"
      [] action = "turn_off" -> "send_cec_power_off"
      [] action = "volume_up" -> "send_cec_volume_up"
      [] action = "volume_down" -> "send_cec_volume_down"
      [] action = "mute_volume" -> "send_cec_mute"

\* entity objects: the MatrixEntity, one MatrixOutput per discovered output,
\* and the MatrixOutputs of second registrations
MatrixEntityId == 1
SetupOutputEntity(n) == MatrixEntityId + n
ReplaceEntities ==
    (MatrixEntityId + Len(OutputIds) + 1)..(MatrixEntityId + Len(OutputIds) + MaxReplace)
OutputEntities == {SetupOutputEntity(n) : n \in DOMAIN OutputIds} \cup ReplaceEntities
\* the MatrixEntity objects of further add_matrix_entity calls
ExtraDevices ==
    (MatrixEntityId + Len(OutputIds) + MaxReplace + 1)
      ..(MatrixEntityId + Len(OutputIds) + MaxReplace + MaxExtraDevices)
DeviceEntities == {MatrixEntityId} \cup ExtraDevices
AllEntities == DeviceEntities \cup OutputEntities

Range(s) == {s[n] : n \in DOMAIN s}

----------------------------------------------------------------------------
(* The matrix's tables *)

\* matrix.inputs_by_name: display name -> input id
inputs_by_name ==
    [name \in Range(inputs_by_id) |->
        CHOOSE i \in DOMAIN inputs_by_id : inputs_by_id[i] = name]

\* inputs_by_name.get(source)
InputsByNameGet(source) ==
    IF source \in DOMAIN inputs_by_name THEN inputs_by_name[source] ELSE NoInput

----------------------------------------------------------------------------
(* Python dict: insertion-ordered key/value pairs with unique keys *)

DictKeys(d) == {d[n].k : n \in DOMAIN d}
DictValues(d) == [n \in DOMAIN d |-> d[n].v]

\* d.get(k)
DictGet(d, k) ==
    IF k \in DictKeys(d)
    THEN d[CHOOSE n \in DOMAIN d : d[n].k = k].v
    ELSE NoEntity

\* (variant: a further pair is kept for a key already present)
DictSetAppend(d, k, v) == Append(d, [k |-> k, v |-> v])

\* (variant: the key is deleted and inserted again, at the end)
DictSetMoveToEnd(d, k, v) ==
    LET Keep(p) == p.k # k
    IN  Append(SelectSeq(d, Keep), [k |-> k, v |-> v])

\* d[k] = v
DictSet(d, k, v) ==
    IF k \in DictKeys(d)
    THEN [n \in DOMAIN d |-> IF d[n].k = k THEN [k |-> k, v |-> v] ELSE d[n]]
    ELSE Append(d, [k |-> k, v |-> v])

\* (variant: the reference is not tested)
TruthyAlways(e) == TRUE

\* truth value of an entity reference (None is false, an entity object true)
TruthyEntity(e) == e # NoEntity
\* truth value of an input id (None and 0 are false)
TruthyInput(i) == i # NoInput /\ i # 0

----------------------------------------------------------------------------
(* Records *)

\* an operation and its arguments; refresh marks a callback of the status refresh
Op(op, ent, out, inp, str) ==
    [op |-> op, ent |-> ent, out |-> out, inp |-> inp, str |-> str, refresh |-> FALSE]
RefreshOp(op, out, inp, str) ==
    [op |-> op, ent |-> 0, out |-> out, inp |-> inp, str |-> str, refresh |-> TRUE]
\* a command sent to the matrix; ok is FALSE when the library lacks the method
Call(name, out, inp, ok) == [name |-> name, out |-> out, inp |-> inp, ok |-> ok]

----------------------------------------------------------------------------
(* Initial state: async_setup_entry has not yet run *)

Init ==
    /\ pc = "listener"
    /\ idx = 1
    /\ inputs_by_id \in Catalogs
    /\ matrix_entities = << >>
    /\ matrix_output_entities = << >>
    /\ registrations = << >>
    /\ entities = {}
    /\ output_id = [e \in OutputEntities |-> 0]
    /\ attr_state = [e \in AllEntities |-> None]
    /\ attr_source = [e \in OutputEntities |-> None]
    /\ sessionCalls = << >>
    /\ raised = NoError
    /\ notified = << >>
    /\ lastOp = Op("init", 0, 0, NoInput, "")
    /\ refreshQ = << >>
    /\ lastBroadcast = NoBroadcast

----------------------------------------------------------------------------
(* Entity methods *)

KnownInput(i) == i \in DOMAIN inputs_by_id

\* MatrixOutput.set_source: _attr_source = matrix.inputs_by_id[input_id];
\* an input id that is no key raises KeyError before the assignment
SetSource(src, e, i) ==
    IF KnownInput(i) THEN [src EXCEPT ![e] = inputs_by_id[i]] ELSE src
SetSourceRaises(i) == IF KnownInput(i) THEN NoError ELSE "KeyError"
\* schedule_update_ha_state is reached only when the lookup succeeded
SetSourceNotifies(e, i) == IF KnownInput(i) THEN <<e>> ELSE << >>

\* set_state(state) called on each entity of the list targets, in order; the
\* schedule_update_ha_state that ends it is the host's, kept in notified
SetStateEach(st, targets, state) ==
    [e \in DOMAIN st |-> IF e \in Range(targets) THEN state ELSE st[e]]

\* (variant: the command is sent whatever the lookup returned)
SelectSourceUnchecked(e, source) ==
    <<Call("change_source", output_id[e], InputsByNameGet(source), TRUE)>>

\* MatrixOutput.select_source: the commands it sends
SelectSourceCalls(e, source) ==
    LET input_id == InputsByNameGet(source)
    IN  IF TruthyInput(input_id)
        THEN <<Call("change_source", output_id[e], input_id, TRUE)>>
        ELSE << >>

----------------------------------------------------------------------------
(* MyListener *)

\* (variant: the first registered output entity, whatever the output id)
SourceChangedFirstEntity(d, o) == IF d = << >> THEN NoEntity ELSE d[1].v

\* the entity source_changed hands the event to (None when there is none)
SourceChangedEntity(d, o) == DictGet(d, o)

\* (variant: every value but "ON" is taken for OFF)
PowerStateOnOrOff(power) == IF power = "ON" THEN StateOn ELSE StateOff

\* the state power_changed derives from the raw power value
PowerState(power) ==
    IF power = "ON" THEN StateOn
    ELSE IF power = "OFF" THEN StateOff
    ELSE None

\* (variant: a lost connection is taken for OFF)
DisconnectedOff == StateOff

\* the state disconnected hands to set_state
DisconnectedState == None

\* (variant: the output entities are left out)
BroadcastDevicesOnly(devs, outs) == devs

\* the entities power_changed and disconnected call set_state on, in order
BroadcastTargets(devs, outs) == devs \o DictValues(outs)

\* (variant: a callback asks the matrix for its status)
ListenerCallsStatus == <<Call("update_status", 0, NoInput, TRUE)>>

\* the commands the callbacks of the listener, and the set_state and set_source
\* they call, send to the matrix: none
ListenerCalls == << >>

listenerVars ==
    <<matrix_entities, matrix_output_entities, registrations, entities, output_id>>
setupVars == <<pc, idx>>
refreshVars == <<refreshQ>>

add_matrix_output_entity(o, e) ==
    /\ matrix_output_entities' = DictSet(matrix_output_entities, o, e)
    /\ registrations' = Append(registrations, e)
    /\ lastBroadcast' = NoBroadcast

add_matrix_entity(e) ==
    /\ matrix_entities' = Append(matrix_entities, e)
    /\ registrations' = Append(registrations, e)
    /\ lastBroadcast' = NoBroadcast

source_changed(o, i) ==
    LET entity == SourceChangedEntity(matrix_output_entities, o)
    IN  /\ attr_source' = IF TruthyEntity(entity)
                          THEN SetSource(attr_source, entity, i)
                          ELSE attr_source
        /\ raised' = IF TruthyEntity(entity) THEN SetSourceRaises(i) ELSE NoError
        /\ notified' = IF TruthyEntity(entity) THEN SetSourceNotifies(entity, i) ELSE << >>
        /\ sessionCalls' = ListenerCalls
        /\ UNCHANGED <<attr_state, listenerVars, inputs_by_id, lastBroadcast>>

power_changed(power) ==
    LET state == PowerState(power)
        targets == BroadcastTargets(matrix_entities, matrix_output_entities)
    IN  /\ attr_state' = SetStateEach(attr_state, targets, state)
        /\ lastBroadcast' = power
        /\ notified' = targets
        /\ raised' = NoError
        /\ sessionCalls' = ListenerCalls
        /\ UNCHANGED <<attr_source, listenerVars, inputs_by_id>>

\* (variant: a disconnect also forgets the displayed sources)
DisconnectedClearsSource ==
    LET targets == BroadcastTargets(matrix_entities, matrix_output_entities)
    IN  /\ attr_state' = SetStateEach(attr_state, targets, DisconnectedState)
        /\ attr_source' = [e \in DOMAIN attr_source |->
                              IF e \in Range(targets) THEN None ELSE attr_source[e]]
        /\ lastBroadcast' = "disconnected"
        /\ notified' = targets
        /\ raised' = NoError
        /\ sessionCalls' = ListenerCalls
        /\ UNCHANGED <<listenerVars, inputs_by_id>>

disconnected ==
    LET targets == BroadcastTargets(matrix_entities, matrix_output_entities)
    IN  /\ attr_state' = SetStateEach(attr_state, targets, DisconnectedState)
        /\ lastBroadcast' = "disconnected"
        /\ notified' = targets
        /\ raised' = NoError
        /\ sessionCalls' = ListenerCalls
        /\ UNCHANGED <<attr_source, listenerVars, inputs_by_id>>

\* connected, error and source_change_requested have empty bodies
NoAction ==
    /\ notified' = << >>
    /\ raised' = NoError
    /\ sessionCalls' = ListenerCalls
    /\ UNCHANGED <<attr_state, attr_source, listenerVars, inputs_by_id, lastBroadcast>>

\* (variant: a connection is taken for power ON)
ConnectedSetsOn == power_changed("ON")

connected == NoAction
error(error_message) == NoAction
source_change_requested(o, i) == NoAction

----------------------------------------------------------------------------
(* The session delivers callbacks once the listener is registered *)

Registered == pc # "listener"

\* source_changed with an output id of outs and an input id of inps
SourceChangedOf(outs, inps) ==
    /\ Registered
    /\ \E o \in outs, i \in inps :
         /\ source_changed(o, i)
         /\ lastOp' = Op("source_changed", 0, o, i, "")
    /\ UNCHANGED <<setupVars, refreshVars>>

\* power_changed with a raw value of raws
PowerChangedOf(raws) ==
    /\ Registered
    /\ \E power \in raws :
         /\ power_changed(power)
         /\ lastOp' = Op("power_changed", 0, 0, NoInput, power)
    /\ UNCHANGED <<setupVars, refreshVars>>

EvSourceChanged == SourceChangedOf(EventOutputIds, EventInputIds)
EvPowerChanged == PowerChangedOf(RawPower)

EvDisconnected ==
    /\ Registered
    /\ disconnected
    /\ lastOp' = Op("disconnected", 0, 0, NoInput, "")
    /\ UNCHANGED <<setupVars, refreshVars>>

EvConnected ==
    /\ Registered
    /\ connected
    /\ lastOp' = Op("connected", 0, 0, NoInput, "")
    /\ UNCHANGED <<setupVars, refreshVars>>

EvError ==
    /\ Registered
    /\ \E m \in {"timeout"} :
         /\ error(m)
         /\ lastOp' = Op("error", 0, 0, NoInput, m)
    /\ UNCHANGED <<setupVars, refreshVars>>

EvSourceChangeRequested ==
    /\ Registered
    /\ \E o \in {OutputIds[1]}, i \in {MaxInputId} :
         /\ source_change_requested(o, i)
         /\ lastOp' = Op("source_change_requested", 0, o, i, "")
    /\ UNCHANGED <<setupVars, refreshVars>>

\* the callbacks a status refresh delivers: the source of every output, then
\* the power state
SourcePending(o) == [ev |-> "source_changed", out |-> o]
PowerPending == [ev |-> "power_changed", out |-> 0]
RefreshEvents ==
    [n \in 1..(Len(OutputIds) + 1) |->
        IF n <= Len(OutputIds) THEN SourcePending(OutputIds[n]) ELSE PowerPending]

\* the next callback of the status refresh that update_status asked for; it
\* reports input i as the source of its output, or the power value power
DeliverRefresh(i, power) ==
    /\ refreshQ # << >>
    /\ refreshQ' = Tail(refreshQ)
    /\ IF Head(refreshQ).ev = "source_changed"
       THEN /\ source_changed(Head(refreshQ).out, i)
            /\ lastOp' = RefreshOp("source_changed", Head(refreshQ).out, i, "")
       ELSE /\ power_changed(power)
            /\ lastOp' = RefreshOp("power_changed", 0, NoInput, power)
    /\ UNCHANGED setupVars

\* the matrix reports a source of inps or a raw power value of raws
RefreshOf(inps, raws) ==
    /\ refreshQ # << >>
    /\ IF Head(refreshQ).ev = "source_changed"
       THEN \E i \in inps : DeliverRefresh(i, "")
       ELSE \E power \in raws : DeliverRefresh(NoInput, power)

\* the matrix reports a source of its catalog or a raw power value
EvRefresh == RefreshOf(DOMAIN inputs_by_id, RawPower)

----------------------------------------------------------------------------
(* async_setup_entry *)

\* (variant: the status refresh is requested before the outputs are registered)
SetupOrderRefreshEarly ==
    <<"listener", "matrix_entity", "refresh", "outputs", "add_entities", "done">>

\* the order of the statements of async_setup_entry
SetupOrder ==
    <<"listener", "matrix_entity", "outputs", "refresh", "add_entities", "done">>

NextPc(p) == SetupOrder[(CHOOSE n \in DOMAIN SetupOrder : SetupOrder[n] = p) + 1]

\* every subscriber of setup is registered with the listener
AllRegistered ==
    /\ MatrixEntityId \in Range(matrix_entities)
    /\ \A n \in DOMAIN OutputIds : OutputIds[n] \in DictKeys(matrix_output_entities)

quiet ==
    /\ sessionCalls' = << >>
    /\ raised' = NoError
    /\ notified' = << >>

\* my_listener = MyListener(); matrix.register_listener(my_listener)
SetupListener ==
    /\ pc = "listener"
    /\ pc' = NextPc(pc)
    /\ matrix_entities' = << >>
    /\ matrix_output_entities' = << >>
    /\ registrations' = << >>
    /\ lastBroadcast' = NoBroadcast
    /\ quiet
    /\ lastOp' = Op("register_listener", 0, 0, NoInput, "")
    /\ UNCHANGED <<idx, inputs_by_id, entities, output_id, attr_state, attr_source,
                   refreshVars>>

\* matrix_entity = MatrixEntity(name, matrix); my_listener.add_matrix_entity(matrix_entity)
SetupMatrixEntity ==
    /\ pc = "matrix_entity"
    /\ pc' = NextPc(pc)
    /\ entities' = entities \cup {MatrixEntityId}
    /\ add_matrix_entity(MatrixEntityId)
    /\ quiet
    /\ lastOp' = Op("add_matrix_entity", MatrixEntityId, 0, NoInput, "")
    /\ UNCHANGED <<idx, inputs_by_id, matrix_output_entities, output_id, attr_state,
                   attr_source, refreshVars>>

\* MatrixOutput.__init__
NewMatrixOutput(e, o) ==
    /\ entities' = entities \cup {e}
    /\ output_id' = [output_id EXCEPT ![e] = o]
    /\ attr_state' = [attr_state EXCEPT ![e] = None]
    /\ UNCHANGED attr_source

\* one iteration of the loop over matrix.outputs_by_id
SetupOutput ==
    /\ pc = "outputs"
    /\ idx <= Len(OutputIds)
    /\ NewMatrixOutput(SetupOutputEntity(idx), OutputIds[idx])
    /\ add_matrix_output_entity(OutputIds[idx], SetupOutputEntity(idx))
    /\ idx' = idx + 1
    /\ pc' = IF idx = Len(OutputIds) THEN NextPc(pc) ELSE pc
    /\ quiet
    /\ lastOp' = Op("add_matrix_output_entity", SetupOutputEntity(idx), OutputIds[idx],
                    NoInput, "")
    /\ UNCHANGED <<inputs_by_id, matrix_entities, refreshVars>>

\* the command update_status
UpdateStatusCall == Call("update_status", 0, NoInput, TRUE)

\* matrix.update_status(): the matrix will report its status
SetupUpdateStatus ==
    /\ pc = "refresh"
    /\ pc' = NextPc(pc)
    /\ sessionCalls' = <<UpdateStatusCall>>
    /\ refreshQ' = RefreshEvents
    /\ raised' = NoError
    /\ notified' = << >>
    /\ lastOp' = Op("update_status", 0, 0, NoInput, "")
    /\ UNCHANGED <<idx, inputs_by_id, listenerVars, attr_state, attr_source,
                   lastBroadcast>>

\* async_add_entities(outputs)
SetupAddEntities ==
    /\ pc = "add_entities"
    /\ pc' = NextPc(pc)
    /\ quiet
    /\ lastOp' = Op("async_add_entities", 0, 0, NoInput, "")
    /\ UNCHANGED <<idx, inputs_by_id, listenerVars, attr_state, attr_source, refreshVars,
                   lastBroadcast>>

----------------------------------------------------------------------------
(* A second registration of an output id with the listener *)

Reregister ==
    /\ Registered
    /\ ReplaceEntities \ entities # {}
    /\ \E o \in DictKeys(matrix_output_entities) :
         LET e == CHOOSE x \in ReplaceEntities \ entities :
                      \A y \in ReplaceEntities \ entities : x <= y
         IN  /\ NewMatrixOutput(e, o)
             /\ add_matrix_output_entity(o, e)
             /\ lastOp' = Op("add_matrix_output_entity", e, o, NoInput, "")
    /\ quiet
    /\ UNCHANGED <<setupVars, inputs_by_id, matrix_entities, refreshVars>>

\* a further MatrixEntity handed to add_matrix_entity
RegisterDevice ==
    /\ Registered
    /\ ExtraDevices \ entities # {}
    /\ LET e == CHOOSE x \in ExtraDevices \ entities :
                 \A y \in ExtraDevices \ entities : x <= y
       IN  /\ entities' = entities \cup {e}
           /\ add_matrix_entity(e)
           /\ lastOp' = Op("add_matrix_entity", e, 0, NoInput, "")
    /\ quiet
    /\ UNCHANGED <<setupVars, inputs_by_id, matrix_output_entities, output_id,
                   attr_state, attr_source, refreshVars>>

----------------------------------------------------------------------------
(* User actions, once the entities are published *)

Published == pc = "done"

\* (variant: the entity shows the requested source as soon as it is requested)
SelectSourceOptimistic(e, source) ==
    /\ sessionCalls' = SelectSourceCalls(e, source)
    /\ raised' = NoError
    /\ notified' = IF SelectSourceCalls(e, source) = << >> THEN << >> ELSE <<e>>
    /\ attr_source' = IF SelectSourceCalls(e, source) = << >> THEN attr_source
                      ELSE [attr_source EXCEPT ![e] = source]
    /\ lastOp' = Op("select_source", e, output_id[e], InputsByNameGet(source), source)
    /\ UNCHANGED <<setupVars, inputs_by_id, listenerVars, attr_state,
                   refreshVars, lastBroadcast>>

select_source(e, source) ==
    /\ sessionCalls' = SelectSourceCalls(e, source)
    /\ raised' = NoError
    /\ notified' = << >>
    /\ lastOp' = Op("select_source", e, output_id[e], InputsByNameGet(source), source)
    /\ UNCHANGED <<setupVars, inputs_by_id, listenerVars, attr_state, attr_source,
                   refreshVars, lastBroadcast>>

\* (variant: the call is not guarded by a try)
CaughtNothing(exc) == FALSE

\* the except clause of the output actions
Caught(exc) == exc = "AttributeError"

\* the exception a command raises: AttributeError when the library lacks it
CommandRaises(supported) == IF supported THEN NoError ELSE "AttributeError"

\* MatrixOutput.turn_on, turn_off, volume_up, volume_down, mute_volume: one CEC
\* command; the AttributeError of a library without the method is caught
OutputCommand(e, action, supported) ==
    /\ sessionCalls' = <<Call(CecCommand(action), output_id[e], NoInput, supported)>>
    /\ raised' = IF Caught(CommandRaises(supported)) THEN NoError
                 ELSE CommandRaises(supported)
    /\ notified' = << >>
    /\ lastOp' = Op(action, e, output_id[e], NoInput, "")
    /\ UNCHANGED <<setupVars, inputs_by_id, listenerVars, attr_state, attr_source,
                   refreshVars, lastBroadcast>>

\* MatrixEntity.turn_on, turn_off
MatrixCommand(cmd) ==
    /\ sessionCalls' = <<Call(cmd, 0, NoInput, TRUE)>>
    /\ raised' = NoError
    /\ notified' = << >>
    /\ lastOp' = Op(cmd, MatrixEntityId, 0, NoInput, "")
    /\ UNCHANGED <<setupVars, inputs_by_id, listenerVars, attr_state, attr_source,
                   refreshVars, lastBroadcast>>

UserSelectSource ==
    /\ Published
    /\ \E e \in entities \cap OutputEntities, source \in SourceNames :
         select_source(e, source)

UserOutputCommand ==
    /\ Published
    /\ \E e \in entities \cap OutputEntities, action \in OutputActions,
          supported \in BOOLEAN :
         OutputCommand(e, action, supported)

UserMatrixCommand ==
    /\ Published
    /\ \E cmd \in {"turn_on", "turn_off"} : MatrixCommand(cmd)

----------------------------------------------------------------------------
(* Specifications *)

\* setup and every callback of the session
Next ==
    \/ SetupListener
    \/ SetupMatrixEntity
    \/ SetupOutput
    \/ SetupUpdateStatus
    \/ SetupAddEntities
    \/ EvSourceChanged
    \/ EvPowerChanged
    \/ EvDisconnected
    \/ EvConnected
    \/ EvError
    \/ EvSourceChangeRequested
    \/ EvRefresh

Spec == Init /\ [][Next]_vars

\* setup, the callbacks that change state, and second registrations, on a
\* matrix with the catalog CatalogA
RegInit == Init /\ inputs_by_id = CatalogA
RegSourceChanged == SourceChangedOf(EventOutputIds, {1, MaxInputId})
RegPowerChanged == PowerChangedOf({"ON", "STANDBY"})
RegRefresh == RefreshOf({1}, {"ON"})

RegNext ==
    \/ SetupListener
    \/ SetupMatrixEntity
    \/ SetupOutput
    \/ SetupUpdateStatus
    \/ SetupAddEntities
    \/ RegSourceChanged
    \/ RegPowerChanged
    \/ EvDisconnected
    \/ RegRefresh
    \/ Reregister

RegSpec == RegInit /\ [][RegNext]_vars

\* setup, the callbacks that change state, and the user's actions
UserNext ==
    \/ SetupListener
    \/ SetupMatrixEntity
    \/ SetupOutput
    \/ SetupUpdateStatus
    \/ SetupAddEntities
    \/ EvSourceChanged
    \/ EvPowerChanged
    \/ EvRefresh
    \/ UserSelectSource
    \/ UserOutputCommand
    \/ UserMatrixCommand

UserSpec == Init /\ [][UserNext]_vars

\* setup runs to its end and the status refresh it asked for is delivered,
\* while the session goes on delivering callbacks
SetupStep ==
    \/ SetupListener
    \/ SetupMatrixEntity
    \/ SetupOutput
    \/ SetupUpdateStatus
    \/ SetupAddEntities

SetupNext ==
    \/ SetupListener
    \/ SetupMatrixEntity
    \/ SetupOutput
    \/ SetupUpdateStatus
    \/ SetupAddEntities
    \/ EvSourceChanged
    \/ EvPowerChanged
    \/ EvDisconnected
    \/ EvRefresh

SetupSpec ==
    Init /\ [][SetupNext]_vars /\ WF_vars(SetupStep) /\ WF_vars(EvRefresh)

\* the end-to-end scenario: the catalog {1: "HDMI1", 2: "HDMI2"}, the outputs
\* 10 and 11, callbacks of any kind until setup asks for the status refresh,
\* and then the refresh alone: source_changed(10, 1), source_changed(11, 2),
\* power_changed("ON")
E2EInit == Init /\ inputs_by_id = CatalogA
E2ESources == (10 :> 1) @@ (11 :> 2)
E2EBeforeRefresh == pc \in {"matrix_entity", "outputs", "refresh"} /\ refreshQ = << >>
E2ESourceChanged == E2EBeforeRefresh /\ EvSourceChanged
E2EPowerChanged == E2EBeforeRefresh /\ EvPowerChanged
E2EDisconnected == E2EBeforeRefresh /\ EvDisconnected
E2ERefresh ==
    /\ refreshQ # << >>
    /\ IF Head(refreshQ).ev = "source_changed"
       THEN DeliverRefresh(E2ESources[Head(refreshQ).out], "")
       ELSE DeliverRefresh(NoInput, "ON")

E2ENext ==
    \/ SetupListener
    \/ SetupMatrixEntity
    \/ SetupOutput
    \/ SetupUpdateStatus
    \/ SetupAddEntities
    \/ E2ESourceChanged
    \/ E2EPowerChanged
    \/ E2EDisconnected
    \/ E2ERefresh

E2ESpec == E2EInit /\ [][E2ENext]_vars

\* setup, the callbacks that broadcast, and further registrations of devices
\* and of output ids
OrderPowerChanged == PowerChangedOf({"ON"})

OrderNext ==
    \/ SetupListener
    \/ SetupMatrixEntity
    \/ SetupOutput
    \/ SetupUpdateStatus
    \/ SetupAddEntities
    \/ OrderPowerChanged
    \/ EvDisconnected
    \/ RegRefresh
    \/ Reregister
    \/ RegisterDevice

OrderSpec == RegInit /\ [][OrderNext]_vars

----------------------------------------------------------------------------
(* Claims *)

\* the output entities registered with the listener
RegisteredOutputs == Range(DictValues(matrix_output_entities))
\* every subscriber registered with the listener
Subscribers == Range(matrix_entities) \cup RegisteredOutputs

\* C1: a source_changed(O, I) with O registered and I in the catalog leaves the
\* subscriber of O showing the display name of I, and leaves the source and
\* the power state of every other subscriber, device subscribers included,
\* as they were.
C1_SourceChangedRoutes ==
    [][(/\ lastOp'.op = "source_changed"
        /\ lastOp'.out \in DictKeys(matrix_output_entities)
        /\ lastOp'.inp \in DOMAIN inputs_by_id)
       => LET s == DictGet(matrix_output_entities, lastOp'.out)
          IN  /\ attr_source'[s] = inputs_by_id[lastOp'.inp]
              /\ \A x \in OutputEntities \ {s} : attr_source'[x] = attr_source[x]
              /\ \A x \in AllEntities \ {s} : attr_state'[x] = attr_state[x]]_vars

C1_Witness ==
    /\ lastOp.op = "source_changed"
    /\ ~lastOp.refresh
    /\ lastOp.out = OutputIds[2]
    /\ lastOp.inp \in DOMAIN inputs_by_id
    /\ AllRegistered
    /\ attr_source[DictGet(matrix_output_entities, OutputIds[2])] = inputs_by_id[lastOp.inp]
    /\ attr_source[DictGet(matrix_output_entities, OutputIds[1])]
         \notin {None, inputs_by_id[lastOp.inp]}
    /\ attr_state[MatrixEntityId] = StateOff

\* C2: a power_changed(raw) leaves every registered device subscriber and every
\* registered output subscriber with the same power state: ON for "ON", OFF for
\* "OFF", and None (unknown) for every other raw value.
C2_PowerChangedBroadcast ==
    lastOp.op = "power_changed"
    => \A s \in Subscribers :
         attr_state[s] = (CASE lastOp.str = "ON" -> StateOn
                            [] lastOp.str = "OFF" -> StateOff
                            [] OTHER -> None)

C2_Witness ==
    /\ lastOp.op = "power_changed"
    /\ lastOp.str = "on"
    /\ AllRegistered
    /\ \A s \in Subscribers : attr_state[s] = None
    /\ Cardinality(Subscribers) = Len(OutputIds) + 1

\* C3: a disconnected() leaves every registered subscriber, device and output,
\* with power state None (unknown), and a second disconnected() right after it
\* changes no subscriber's state or source.
C3_DisconnectedUnknown ==
    /\ [](lastOp.op = "disconnected" => \A s \in Subscribers : attr_state[s] = None)
    /\ [][(lastOp.op = "disconnected" /\ lastOp'.op = "disconnected")
          => (attr_state' = attr_state /\ attr_source' = attr_source)]_vars

C3_Witness ==
    /\ lastOp.op = "disconnected"
    /\ AllRegistered
    /\ Cardinality(Subscribers) = Len(OutputIds) + 1
    /\ \A s \in Subscribers : attr_state[s] = None
    /\ \E s \in RegisteredOutputs : attr_source[s] # None

\* an output entity that was registered and has been replaced by another
Replaced(e) == e \in (entities \cap OutputEntities) \ RegisteredOutputs

\* C4: a second registration of an output id replaces the first: the registry
\* holds one subscriber per output id, the one registered last; the events that
\* follow reach that subscriber and never the replaced one, whose state and
\* source stay as they were.
C4_LastRegistrationWins ==
    /\ [](/\ \A m, n \in DOMAIN matrix_output_entities :
               matrix_output_entities[m].k = matrix_output_entities[n].k => m = n
          /\ lastOp.op = "add_matrix_output_entity"
               => DictGet(matrix_output_entities, lastOp.out) = lastOp.ent
          /\ lastOp.op \in {"power_changed", "disconnected"}
               => \A o \in DictKeys(matrix_output_entities) :
                    DictGet(matrix_output_entities, o) \in Range(notified)
          /\ (lastOp.op = "source_changed"
                /\ lastOp.out \in DictKeys(matrix_output_entities)
                /\ KnownInput(lastOp.inp))
               => /\ notified = <<DictGet(matrix_output_entities, lastOp.out)>>
                  /\ attr_source[DictGet(matrix_output_entities, lastOp.out)]
                       = inputs_by_id[lastOp.inp])
    /\ [][\A e \in OutputEntities :
            (Replaced(e) /\ lastOp'.op # "add_matrix_output_entity")
            => /\ attr_state'[e] = attr_state[e]
               /\ attr_source'[e] = attr_source[e]
               /\ e \notin Range(notified')]_vars

C4_Witness ==
    \E e \in OutputEntities :
        /\ Replaced(e)
        /\ lastOp.op = "power_changed"
        /\ attr_state[e] = None
        /\ attr_source[e] = None
        /\ attr_state[DictGet(matrix_output_entities, output_id[e])] = StateOn
        /\ attr_source[DictGet(matrix_output_entities, output_id[e])] # None

\* C5: select_source(name) with a name that is no key of the name-to-id table
\* sends no command to the matrix and leaves the state and the source of every
\* entity as they were.
C5_UnknownSourceNoCall ==
    [][(lastOp'.op = "select_source" /\ lastOp'.str \notin DOMAIN inputs_by_name)
       => /\ sessionCalls' = << >>
          /\ attr_state' = attr_state
          /\ attr_source' = attr_source]_vars

C5_Witness ==
    /\ lastOp.op = "select_source"
    /\ lastOp.str = "Bogus"
    /\ sessionCalls = << >>
    /\ attr_source[lastOp.ent] # None
    /\ attr_state[lastOp.ent] = StateOn

\* C6: set_source with an input id that is not in the catalog raises no
\* exception: a source_changed for a registered output with such an input id
\* lets no exception escape.
C6_UnknownInputNoThrow ==
    (/\ lastOp.op = "source_changed"
     /\ lastOp.out \in DictKeys(matrix_output_entities)
     /\ ~KnownInput(lastOp.inp))
    => raised = NoError

\* C7: select_source(name) on output O, for every name of the name-to-id table
\* and whatever id it maps to, sends exactly one command to the matrix:
\* change_source(output_id = O, input_id = table[name]).
C7_KnownSourceOneCall ==
    (lastOp.op = "select_source" /\ lastOp.str \in DOMAIN inputs_by_name)
    => sessionCalls =
         <<Call("change_source", output_id[lastOp.ent], inputs_by_name[lastOp.str], TRUE)>>

\* C8: a source_changed(O, I) while no subscriber is registered for O raises no
\* exception and changes the state and the source of no subscriber: the event
\* is dropped.
C8_UnregisteredOutputDropped ==
    [][(/\ lastOp'.op = "source_changed"
        /\ lastOp'.out \notin DictKeys(matrix_output_entities))
       => /\ raised' = NoError
          /\ notified' = << >>
          /\ attr_state' = attr_state
          /\ attr_source' = attr_source]_vars

C8_Witness ==
    /\ lastOp.op = "source_changed"
    /\ lastOp.out = OutputIds[2]
    /\ lastOp.inp = MaxInputId
    /\ pc = "outputs"
    /\ DictKeys(matrix_output_entities) = {OutputIds[1]}
    /\ raised = NoError
    /\ attr_source[DictGet(matrix_output_entities, OutputIds[1])] # None

\* C9: setup asks for the status refresh only once the device subscriber and
\* the subscriber of every discovered output are registered; so, the refresh
\* reporting the power state and the source of every output, every subscriber
\* that setup registered eventually holds the power state and the source the
\* refresh reported, whatever callbacks were delivered during setup.
C9_RefreshAfterRegistration ==
    /\ [](UpdateStatusCall \in Range(sessionCalls) => AllRegistered)
    /\ \A n \in DOMAIN OutputIds :
         <>(/\ lastOp.refresh
            /\ lastOp.op = "source_changed"
            /\ lastOp.out = OutputIds[n]
            /\ attr_source[SetupOutputEntity(n)] = inputs_by_id[lastOp.inp])
    /\ <>(/\ lastOp.refresh
          /\ lastOp.op = "power_changed"
          /\ \A e \in {MatrixEntityId} \cup {SetupOutputEntity(n) : n \in DOMAIN OutputIds} :
               attr_state[e] = PowerState(lastOp.str))

C9_Witness ==
    /\ pc = "done"
    /\ refreshQ = << >>
    /\ lastOp.refresh
    /\ lastOp.op = "power_changed"
    /\ lastOp.str = "OFF"
    /\ \A e \in {MatrixEntityId} \cup {SetupOutputEntity(n) : n \in DOMAIN OutputIds} :
         attr_state[e] = StateOff
    /\ \A n \in DOMAIN OutputIds : attr_source[SetupOutputEntity(n)] # None

\* the status refresh of the scenario has been delivered
E2EDelivered == pc \in {"add_entities", "done"} /\ refreshQ = << >>

\* C10: in the end-to-end scenario, after source_changed(10, 1),
\* source_changed(11, 2) and power_changed("ON"), output 10 shows "HDMI1" and
\* ON, output 11 shows "HDMI2" and ON, and the device entity shows ON.
C10_EndToEnd ==
    E2EDelivered
    => /\ attr_source[DictGet(matrix_output_entities, 10)] = "HDMI1"
       /\ attr_state[DictGet(matrix_output_entities, 10)] = StateOn
       /\ attr_source[DictGet(matrix_output_entities, 11)] = "HDMI2"
       /\ attr_state[DictGet(matrix_output_entities, 11)] = StateOn
       /\ \A d \in Range(matrix_entities) : attr_state[d] = StateOn
       /\ Range(matrix_entities) = {MatrixEntityId}

C10_Witness ==
    /\ E2EDelivered
    /\ pc = "done"
    /\ lastOp.op = "async_add_entities"
    /\ attr_source[SetupOutputEntity(1)] = "HDMI1"
    /\ attr_source[SetupOutputEntity(2)] = "HDMI2"
    /\ \A e \in {MatrixEntityId} \cup {SetupOutputEntity(n) : n \in DOMAIN OutputIds} :
         attr_state[e] = StateOn

\* C11: each of turn_on, turn_off, volume_up, volume_down and mute_volume of an
\* output attempts exactly one command, a CEC command for its own output id;
\* also when the library lacks the command, no exception escapes, no other
\* command is sent and the state and the source of every entity stay as they
\* were.
C11_OutputActionOneCommand ==
    [][(lastOp'.op \in OutputActions /\ lastOp'.ent \in OutputEntities)
       => /\ Len(sessionCalls') = 1
          /\ sessionCalls'[1].name \in CecCommands
          /\ sessionCalls'[1].out = output_id[lastOp'.ent]
          /\ raised' = NoError
          /\ attr_state' = attr_state
          /\ attr_source' = attr_source]_vars

C11_Witness ==
    /\ lastOp.op = "mute_volume"
    /\ lastOp.ent \in OutputEntities
    /\ sessionCalls = <<Call("send_cec_mute", OutputIds[2], NoInput, FALSE)>>
    /\ raised = NoError
    /\ attr_state[lastOp.ent] = StateOn
    /\ attr_source[lastOp.ent] # None

\* the callbacks with an empty body
SilentCallbacks == {"connected", "error", "source_change_requested"}

\* C12: connected(), error(message) and source_change_requested(O, I) leave the
\* power state and the source of every subscriber as they were; so subscribers
\* that are all unknown, as after a disconnected(), stay unknown across
\* connected() and error() callbacks.
C12_SilentCallbacks ==
    /\ [][lastOp'.op \in SilentCallbacks
          => (attr_state' = attr_state /\ attr_source' = attr_source)]_vars
    /\ [][((\A s \in Subscribers : attr_state[s] = None)
             /\ lastOp'.op \in {"connected", "error"})
          => (\A s \in Subscribers : attr_state'[s] = None)]_vars

C12_Witness ==
    /\ lastOp.op = "connected"
    /\ AllRegistered
    /\ \A s \in Subscribers : attr_state[s] = None
    /\ \A s \in RegisteredOutputs : attr_source[s] # None

\* the callbacks that broadcast a power state
Broadcasts == {"power_changed", "disconnected"}
\* the place of entity e in the order of registration
RegisteredAt(e) == CHOOSE n \in DOMAIN registrations : registrations[n] = e
IsDevice(e) == e \in DeviceEntities
IsOutput(e) == e \in OutputEntities
\* the registrations of output entities, in order, and the places of those that
\* registered an output id for the first time
OutputRegistrations == SelectSeq(registrations, IsOutput)
FirstOfId ==
    {n \in DOMAIN OutputRegistrations :
        \A m \in 1..(n - 1) :
            output_id[OutputRegistrations[m]] # output_id[OutputRegistrations[n]]}
\* the entity registered last for the output id first registered at place n
LatestFor(n) ==
    OutputRegistrations[
        CHOOSE m \in DOMAIN OutputRegistrations :
            /\ output_id[OutputRegistrations[m]] = output_id[OutputRegistrations[n]]
            /\ \A j \in DOMAIN OutputRegistrations :
                 output_id[OutputRegistrations[j]] = output_id[OutputRegistrations[n]]
                 => j <= m]
\* the subscribers in the order of the first registration of their output id
ByFirstRegistration ==
    [k \in 1..Cardinality(FirstOfId) |->
        LatestFor(CHOOSE n \in FirstOfId : Cardinality({m \in FirstOfId : m < n}) = k - 1)]

\* C13 (as claimed): within a power_changed or a disconnected, device
\* subscribers are notified in the order they were registered, and so are
\* output subscribers, a replacing subscriber counting from its own
\* registration.
C13_NotifiedInRegistrationOrder ==
    lastOp.op \in Broadcasts
    => \A m, n \in DOMAIN notified :
         (m < n /\ (IsDevice(notified[m]) <=> IsDevice(notified[n])))
         => RegisteredAt(notified[m]) < RegisteredAt(notified[n])

\* C13 (amended): within a power_changed or a disconnected, the device
\* subscribers are notified in the order they were registered, then the output
\* subscribers in the order their output ids were first registered: a
\* replacing subscriber takes the place of the one it replaces.
C13_NotifiedInKeyOrder ==
    lastOp.op \in Broadcasts
    => notified = SelectSeq(registrations, IsDevice) \o ByFirstRegistration

C13_Witness ==
    /\ lastOp.op = "power_changed"
    /\ Len(SelectSeq(notified, IsDevice)) = 2
    /\ \E m, n \in DOMAIN notified :
         /\ m < n
         /\ IsOutput(notified[m]) /\ IsOutput(notified[n])
         /\ RegisteredAt(notified[m]) > RegisteredAt(notified[n])

\* the callbacks of the listener
Callbacks ==
    {"source_changed", "power_changed", "connected", "disconnected", "error",
     "source_change_requested"}

\* C14: no callback of the listener, and no set_state or set_source it calls,
\* sends a command to the matrix: after each callback the commands sent by it
\* are none.
C14_CallbacksSendNothing ==
    lastOp.op \in Callbacks => sessionCalls = << >>

C14_Witness ==
    /\ lastOp.op = "power_changed"
    /\ lastOp.str = "ON"
    /\ sessionCalls = << >>
    /\ AllRegistered
    /\ Len(notified) = Len(OutputIds) + 1
    /\ \A s \in Subscribers : attr_state[s] = StateOn

\* C16: once every subscriber of setup is registered and a power_changed or a
\* disconnected has been dispatched since the last registration, all registered
\* subscribers, device and output, hold the same power state: the one of the
\* most recent of these events.
C16_PowerSessionWide ==
    (AllRegistered /\ lastBroadcast # NoBroadcast)
    => \A s \in Subscribers :
         attr_state[s] = (CASE lastBroadcast = "ON" -> StateOn
                            [] lastBroadcast = "OFF" -> StateOff
                            [] OTHER -> None)

C16_Witness ==
    /\ AllRegistered
    /\ lastBroadcast = "ON"
    /\ lastOp.op = "source_changed"
    /\ Replaced(SetupOutputEntity(1))
    /\ attr_state[SetupOutputEntity(1)] = None
    /\ \A s \in Subscribers : attr_state[s] = StateOn
    /\ Cardinality(Subscribers) = Len(OutputIds) + 1

\* the operations a user invokes on an entity
UserActions == {"select_source"} \cup OutputActions

\* C15: select_source, turn_on, turn_off, volume_up, volume_down and
\* mute_volume on an output, and turn_on and turn_off on the device entity,
\* leave the power state and the source of every entity unchanged and schedule
\* no update: the displayed values move only with a dispatched event.
C15_NoOptimisticUpdate ==
    [][lastOp'.op \in UserActions
       => /\ attr_state' = attr_state
          /\ attr_source' = attr_source
          /\ notified' = << >>]_vars

C15_Witness ==
    /\ lastOp.op = "select_source"
    /\ sessionCalls # << >>
    /\ attr_source[lastOp.ent] \notin {None, lastOp.str}
    /\ attr_state[lastOp.ent] = StateOn

\* C17: disconnected and power_changed leave every displayed source as it
\* was; a displayed source changes only in a source_changed for the output of
\* that entity.
C17_BroadcastKeepsSource ==
    [][/\ lastOp'.op \in Broadcasts => attr_source' = attr_source
       /\ \A e \in OutputEntities :
            attr_source'[e] # attr_source[e]
            => /\ lastOp'.op = "source_changed"
               /\ DictGet(matrix_output_entities, lastOp'.out) = e]_vars

C17_Witness ==
    /\ lastOp.op = "disconnected"
    /\ \E e \in RegisteredOutputs :
         /\ attr_state[e] = None
         /\ attr_source[e] \notin {None}

\* C18: an entity schedules an update of its displayed state only once
\* async_add_entities has handed it to the host.
C18_NotifiedAfterPublished ==
    notified # << >> => Published

====
